---------------------------- MODULE Spec2Model ----------------------------
(***************************************************************************)
(* A model of the document quality auditor of grammar.py: the text         *)
(* normalizer, the offset indexer, the LanguageTool check and the scoring  *)
(* aggregator.                                                             *)
(*                                                                         *)
(* A text is a sequence of characters over the alphabet Chars. Scores and  *)
(* weights are counted in hundredths of a point (the code rounds every     *)
(* score to two decimals), so 35.0 points is 3500.                         *)
(***************************************************************************)
EXTENDS Integers, Sequences, FiniteSets, TLC

VARIABLES
    sys,          \* which subsystem this behaviour exercises
    txt,          \* the raw text of the document
    offset,       \* an offset into txt
    out,          \* the successive results of normalize_text
    line_starts,  \* the line-start table, <<>> until it is built
    loc,          \* the (line, col) resolved for offset, <<>> until resolved
    page_breaks,  \* the page-break table, built together with line_starts
    page,         \* the page resolved for offset, -1 until resolved
    ploc,         \* the (page, line, col) resolved for offset, <<>> until resolved
    options,      \* the AuditOptions of the run
    langtool_lib, \* whether language_tool_python could be imported
    lt,           \* the activation of check_language_tool
    agg,          \* the activation of aggregate_report
    run,          \* the activation of main
    gen,          \* the activation of the generator iter_text_chunks
    ctx,          \* the CheckContext of the document under audit
    checked       \* the CheckResult of every check that has run on ctx

vars == <<sys, txt, offset, out, line_starts, loc, page_breaks, page, ploc, options,
          langtool_lib, lt, agg, run, gen, ctx, checked>>

textVars == <<offset, out, line_starts, loc, page_breaks, page, ploc>>

engineVars == <<options, langtool_lib, lt, agg, run, gen, ctx, checked>>

(***************************************************************************)
(* Bounds of the model.                                                    *)
(***************************************************************************)
MaxLen == 3

MaxMatches == 1

MaxPerCheck == 1

MaxChunk == 2

MaxOverlap == 1

\* The texts, window sizes and overlaps iter_text_chunks is run on by itself.
MaxWinText == 4

MaxWin == 3

MaxWinOverlap == 2

MaxYields == MaxWinText + 1

MaxEnabled == 2

MaxFiles == 3

MaxFollowing == 1

MaxIssues == 2

\* The number of pieces a document is written from.
MaxTokens == 5

\* The mixed lists and the further lines of a document of list lines.
MaxBlocks == 5

MaxListLines == 4

BigCount == 101

(***************************************************************************)
(* Characters. E is a base letter, ACUTE a combining mark, E_ACUTE their   *)
(* canonical composition.                                                  *)
(***************************************************************************)
Chars == {"E", "ACUTE", "E_ACUTE", "NUL", "CR", "LF", "SP", "TAB", "FF"}

Texts == UNION {[1..n -> Chars] : n \in 0..MaxLen}

Max(a, b) == IF a >= b THEN a ELSE b

Min(a, b) == IF a <= b THEN a ELSE b

\* The elements of a set of integers in ascending order.
RECURSIVE SetToSortedSeq(_)
SetToSortedSeq(s) ==
    IF s = {} THEN <<>>
    ELSE LET m == CHOOSE x \in s : \A y \in s : x <= y
         IN  <<m>> \o SetToSortedSeq(s \ {m})

(***************************************************************************)
(* Text normalizer.                                                        *)
(***************************************************************************)
\* unicodedata.normalize("NFC", text) on Chars: a base letter directly
\* followed by its combining mark composes; any other character (NUL
\* included) between them is a starter and blocks the composition.
RECURSIVE NFC(_)
NFC(t) ==
    IF Len(t) = 0 THEN <<>>
    ELSE IF Len(t) >= 2 /\ t[1] = "E" /\ t[2] = "ACUTE"
         THEN <<"E_ACUTE">> \o NFC(SubSeq(t, 3, Len(t)))
         ELSE <<t[1]>> \o NFC(Tail(t))

\* text.replace("\r\n", "\n")
RECURSIVE ReplaceCRLF(_)
ReplaceCRLF(t) ==
    IF Len(t) = 0 THEN <<>>
    ELSE IF Len(t) >= 2 /\ t[1] = "CR" /\ t[2] = "LF"
         THEN <<"LF">> \o ReplaceCRLF(SubSeq(t, 3, Len(t)))
         ELSE <<t[1]>> \o ReplaceCRLF(Tail(t))

\* text.replace("\r", "\n")
ReplaceCR(t) == [i \in 1..Len(t) |-> IF t[i] = "CR" THEN "LF" ELSE t[i]]

\* text.replace("\x00", "")
RemoveNUL(t) == SelectSeq(t, LAMBDA c : c # "NUL")

\* Whether the run of spaces and tabs that holds position i ends in a line feed.
RECURSIVE BeforeLF(_, _)
BeforeLF(t, i) ==
    IF i > Len(t) THEN FALSE
    ELSE IF t[i] = "LF" THEN TRUE
    ELSE IF t[i] \in {"SP", "TAB"} THEN BeforeLF(t, i + 1)
    ELSE FALSE

\* re.sub(r"[ \t]+\n", "\n", text)
RECURSIVE StripBeforeLFFrom(_, _)
StripBeforeLFFrom(t, i) ==
    IF i > Len(t) THEN <<>>
    ELSE IF t[i] \in {"SP", "TAB"} /\ BeforeLF(t, i)
         THEN StripBeforeLFFrom(t, i + 1)
         ELSE <<t[i]>> \o StripBeforeLFFrom(t, i + 1)

StripBeforeLF(t) == StripBeforeLFFrom(t, 1)

normalize_text(t) == StripBeforeLF(RemoveNUL(ReplaceCR(ReplaceCRLF(NFC(t)))))

(***************************************************************************)
(* Offset indexer.                                                         *)
(***************************************************************************)
\* starts = [0] plus match.end() of every "\n" or "\f"
RECURSIVE LineStartsFrom(_, _)
LineStartsFrom(t, i) ==
    IF i > Len(t) THEN <<>>
    ELSE IF t[i] \in {"LF", "FF"}
         THEN <<i>> \o LineStartsFrom(t, i + 1)
         ELSE LineStartsFrom(t, i + 1)

build_line_starts(t) == <<0>> \o LineStartsFrom(t, 1)

\* BinarySearch comparing the line start with < instead of <=.
RECURSIVE BinarySearch_Strict(_, _, _, _)
BinarySearch_Strict(o, ls, lo, hi) ==
    IF lo < hi
    THEN LET mid == (lo + hi) \div 2
         IN  IF ls[mid + 1] < o
             THEN BinarySearch_Strict(o, ls, mid + 1, hi)
             ELSE BinarySearch_Strict(o, ls, lo, mid)
    ELSE lo

\* The while loop of offset_to_line_col over the 0-based interval [lo, hi);
\* table index mid is ls[mid + 1] here.
RECURSIVE BinarySearch(_, _, _, _)
BinarySearch(o, ls, lo, hi) ==
    IF lo < hi
    THEN LET mid == (lo + hi) \div 2
         IN  IF ls[mid + 1] <= o
             THEN BinarySearch(o, ls, mid + 1, hi)
             ELSE BinarySearch(o, ls, lo, mid)
    ELSE lo

\* ColOf with a 0-based column.
ColOf_ZeroBased(o, start) == o - start

ColOf(o, start) == o - start + 1

offset_to_line_col(o, ls) ==
    LET lo       == BinarySearch(o, ls, 0, Len(ls))
        line_idx == Max(0, lo - 1)
    IN  <<line_idx + 1, ColOf(o, ls[line_idx + 1])>>

\* page_breaks = [m.start() for m in re.finditer(r"\f", text)]
RECURSIVE PageBreaksFrom(_, _)
PageBreaksFrom(t, i) ==
    IF i > Len(t) THEN <<>>
    ELSE IF t[i] = "FF"
         THEN <<i - 1>> \o PageBreaksFrom(t, i + 1)
         ELSE PageBreaksFrom(t, i + 1)

build_page_breaks(t) == PageBreaksFrom(t, 1)

\* bisect.bisect_right(a, x, lo, hi): the insertion point after the entries
\* equal to x; table index mid is a[mid + 1] here.
RECURSIVE BisectRight(_, _, _, _)
BisectRight(a, x, lo, hi) ==
    IF lo < hi
    THEN LET mid == (lo + hi) \div 2
         IN  IF x < a[mid + 1]
             THEN BisectRight(a, x, lo, mid)
             ELSE BisectRight(a, x, mid + 1, hi)
    ELSE lo

bisect_right(a, x) == BisectRight(a, x, 0, Len(a))

\* offset_to_page counting pages from 0.
offset_to_page_FromZero(o, pb) == bisect_right(pb, o)

offset_to_page(o, pb) ==
    IF pb = <<>> THEN 1 ELSE bisect_right(pb, o) + 1

\* The page of a location in a text without page breaks (None).
NoPage == 0

offset_to_page_line_col(o, ls, pb) ==
    LET lc == offset_to_line_col(o, ls)
    IN  IF pb = <<>> THEN <<NoPage, lc[1], lc[2]>>
        ELSE LET page_idx   == bisect_right(pb, o)
                 page_start == IF page_idx = 0 THEN 0 ELSE pb[page_idx] + 1
                 page_line_start_idx == Max(0, bisect_right(ls, page_start) - 1)
                 line_idx     == Max(0, bisect_right(ls, o) - 1)
                 page_line_no == Max(1, line_idx - page_line_start_idx + 1)
             IN  <<page_idx + 1, page_line_no, lc[2]>>

(***************************************************************************)
(* Data structures and the check registry.                                 *)
(***************************************************************************)
\* argparse defaults of main
DefaultOptions ==
    [max_issues |-> 0, max_issues_per_check |-> 50, lt_chunk_size |-> 8000,
     lt_overlap |-> 200, strict |-> FALSE, enable_langtool |-> TRUE]

\* Issue(check_id, message, ...); start is the offset the location is resolved
\* from, -1 for an issue without location.
Issue(check_id, message, start) ==
    [check_id |-> check_id, message |-> message, start |-> start]

CheckResult(check_id, score, max_score, issues, metrics, status) ==
    [check_id |-> check_id, score |-> score, max_score |-> max_score,
     issues |-> issues, metrics |-> metrics, status |-> status]

NoResult == CheckResult("none", 0, 0, <<>>, <<>>, "none")

\* CHECKS: the registry in registration order, weights in hundredths.
CHECKS ==
    << [check_id |-> "language_tool",  weight |-> 3500],
       [check_id |-> "readability",    weight |-> 1000],
       [check_id |-> "punctuation",    weight |-> 1000],
       [check_id |-> "whitespace",     weight |-> 500],
       [check_id |-> "percentages",    weight |-> 500],
       [check_id |-> "headings",       weight |-> 500],
       [check_id |-> "passive_voice",  weight |-> 500],
       [check_id |-> "parallel_lists", weight |-> 1000],
       [check_id |-> "links",          weight |-> 500],
       [check_id |-> "acronyms",       weight |-> 1000] >>

\* round(n / d, 2) of a value n / d counted in hundredths, n >= 0, d > 0:
\* to the nearest hundredth, a tie to the even one.
RoundDiv(n, d) ==
    LET q == n \div d
        r == n % d
    IN  IF 2 * r < d THEN q
        ELSE IF 2 * r > d THEN q + 1
        ELSE IF q % 2 = 0 THEN q ELSE q + 1

\* len(word_tokens(text)): WORD_RE finds the maximal runs of letters.
IsLetter(c) == c \in {"E", "E_ACUTE"}

RECURSIVE WordCountFrom(_, _)
WordCountFrom(t, i) ==
    IF i > Len(t) THEN 0
    ELSE (IF IsLetter(t[i]) /\ (i = 1 \/ ~IsLetter(t[i - 1])) THEN 1 ELSE 0)
         + WordCountFrom(t, i + 1)

word_tokens(t) == WordCountFrom(t, 1)

(***************************************************************************)
(* Chunking.                                                               *)
(***************************************************************************)
\* text.rfind(c, start, end): the highest 0-based index in [start, end) that
\* holds c, or -1.
RECURSIVE RFind(_, _, _, _)
RFind(t, c, start, end) ==
    IF end <= start THEN -1
    ELSE IF t[end] = c THEN end - 1
    ELSE RFind(t, c, start, end - 1)

\* Whether iter_text_chunks yields the whole text as its only chunk.
SingleChunk(t, max_chars) == max_chars <= 0 \/ Len(t) <= max_chars

\* The end of the window that starts at start.
ChunkEnd(t, start, max_chars) ==
    IF SingleChunk(t, max_chars) THEN Len(t)
    ELSE LET end == Min(Len(t), start + max_chars)
             nl  == RFind(t, "LF", start, end)
             boundary == IF nl = -1 THEN RFind(t, "SP", start, end) ELSE nl
         IN  IF end < Len(t) /\ boundary # -1 /\ boundary > start + max_chars \div 2
             THEN boundary
             ELSE end

\* The start of the window after [start, end), or -1 when the generator ends.
NextChunkStart(t, end, max_chars, overlap) ==
    IF SingleChunk(t, max_chars) \/ end = Len(t) THEN -1
    ELSE LET start == Max(0, end - overlap)
         IN  IF start < Len(t) THEN start ELSE -1

\* The generator before its first next(): windows is what it has yielded, as
\* (base offset, end, chunk).
GenIdle == [pc |-> "idle", start |-> 0, windows |-> <<>>]

\* The activation of main outside a batch run.
RunIdle == [pc |-> "idle"]

(***************************************************************************)
(* Context builder.                                                        *)
(***************************************************************************)
\* re.split(r"[\n\f]", text) from position i on, cur being the line so far.
RECURSIVE SplitFrom(_, _, _)
SplitFrom(t, i, cur) ==
    IF i > Len(t) THEN <<cur>>
    ELSE IF t[i] \in {"LF", "FF"}
         THEN <<cur>> \o SplitFrom(t, i + 1, <<>>)
         ELSE SplitFrom(t, i + 1, Append(cur, t[i]))

\* split_lines that takes the form feed for a character of the line.
split_lines_NewlineOnly(t) ==
    LET RECURSIVE From(_, _)
        From(i, cur) ==
            IF i > Len(t) THEN <<cur>>
            ELSE IF t[i] = "LF" THEN <<cur>> \o From(i + 1, <<>>)
            ELSE From(i + 1, Append(cur, t[i]))
    IN  From(1, <<>>)

split_lines(t) == SplitFrom(t, 1, <<>>)

\* The CheckContext of a text; words is len(ctx.words), and the options are
\* the variable options.
build_context(t) ==
    [text |-> t, lines |-> split_lines(t), words |-> word_tokens(t),
     line_starts |-> build_line_starts(t), page_breaks |-> build_page_breaks(t)]

\* No context: aggregate_report has not been entered.
NoContext ==
    [text |-> <<>>, lines |-> <<>>, words |-> 0, line_starts |-> <<>>,
     page_breaks |-> <<>>]

\* No check has returned.
NoChecks == <<>>

(***************************************************************************)
(* check_language_tool. The collaborator (language_tool_python) is the     *)
(* environment: constructing the tool may raise, and each tool.check(chunk)*)
(* either raises or returns a sequence of matches.                         *)
(***************************************************************************)
\* No invocation of tool.check.
NoCall == [start |-> -1, end |-> -1, outcome |-> "none", repeated |-> 0]

\* last and prev are the latest two invocations of tool.check, and returned
\* the matches the invocations returned, as (ruleId, offset in the text,
\* errorLength).
LtIdle ==
    [pc |-> "idle", next |-> -1, prev |-> NoCall, last |-> NoCall, returned |-> {},
     seen |-> {}, total_matches |-> 0, issues |-> <<>>, raised |-> "none",
     result |-> NoResult]

LtMaxPoints == CHECKS[1].weight

\* The result when the tool is disabled or the library is missing.
LtSkipped(max_points) ==
    CheckResult("language_tool", 0, max_points,
                <<Issue("language_tool", "not installed or disabled", -1)>>,
                [available |-> 0], "skipped")

\* LtError with the status of the skip branch.
LtError_AsSkipped(max_points, hint) ==
    CheckResult("language_tool", 0, max_points,
                <<Issue("language_tool", "LanguageTool error", -1)>>,
                [available |-> 0], "skipped")

\* The result built by the except clause; hint is whether langtool_error_hint
\* recognises the exception's message.
LtError(max_points, hint) ==
    CheckResult("language_tool", 0, max_points,
                <<Issue("language_tool", "LanguageTool error", -1)>>
                    \o (IF hint THEN <<Issue("language_tool", "Suggested fix", -1)>>
                        ELSE <<>>),
                [available |-> 0], "error")

\* The result after the last chunk.
LtOk(max_points, n_words, total_matches, issues) ==
    LET words   == Max(1, n_words)
        \* penalty = min(max_points, 1000 * total_matches / words / 2)
        capped  == 50000 * total_matches >= max_points * words
        penalty == IF capped THEN max_points
                   ELSE RoundDiv(50000 * total_matches, words)
        score   == IF capped THEN 0
                   ELSE RoundDiv(max_points * words - 50000 * total_matches, words)
    IN  CheckResult("language_tool", score, max_points, issues,
                    [matches |-> total_matches, penalty_points |-> penalty], "ok")

\* LtMatch without the test "key in seen".
LtMatch_NoDedup(st, m, base_offset, max_per_check) ==
    LET global_offset == base_offset + m.offset
        key == <<m.ruleId, global_offset, m.errorLength>>
    IN  [st EXCEPT
           !.seen = @ \cup {key},
           !.total_matches = @ + 1,
           !.issues = IF Len(@) >= max_per_check THEN @
                      ELSE Append(@, Issue("language_tool", m.ruleId, global_offset))]

\* The body of "for m in matches" for one match of the chunk at base_offset.
LtMatch(st, m, base_offset, max_per_check) ==
    LET global_offset == base_offset + m.offset
        key == <<m.ruleId, global_offset, m.errorLength>>
    IN  IF key \in st.seen THEN st
        ELSE [st EXCEPT
                !.seen = @ \cup {key},
                !.total_matches = @ + 1,
                !.issues = IF Len(@) >= max_per_check THEN @
                           ELSE Append(@, Issue("language_tool", m.ruleId, global_offset))]

RECURSIVE LtMatches(_, _, _, _)
LtMatches(st, ms, base_offset, max_per_check) ==
    IF ms = <<>> THEN st
    ELSE LtMatches(LtMatch(st, Head(ms), base_offset, max_per_check),
                   Tail(ms), base_offset, max_per_check)

\* One invocation tool.check(text[start:end]): it returned matches, repeated
\* of them with the key of another match returned in this run, or it raised,
\* or it has not answered ("waiting").
LtCallOf(start, end, outcome, repeated) ==
    [start |-> start, end |-> end, outcome |-> outcome, repeated |-> repeated]

\* The keys of the matches of a chunk at base_offset.
KeysOf(matches, base_offset) ==
    {<<matches[k].ruleId, base_offset + matches[k].offset, matches[k].errorLength>> :
        k \in 1..Len(matches)}

\* LtRaised that calls tool.check again on the chunk that failed.
LtRaised_Retry(st, call, hint) == [st EXCEPT !.prev = st.last, !.last = call]

\* tool.check raised: the except clause ends the loop and the check.
LtRaised(st, call, hint) ==
    [st EXCEPT !.pc = "returned", !.raised = "check", !.prev = st.last,
               !.last = call, !.result = LtError(LtMaxPoints, hint)]

\* tool.check returned: the loop over the matches, then the generator resumes.
LtReturned(st, call, matches, next, max_per_check) ==
    [LtMatches(st, matches, call.start, max_per_check) EXCEPT
        !.prev = st.last, !.last = call, !.next = next,
        !.returned = @ \cup KeysOf(matches, call.start)]

\* tool.check does not return; nothing in the check bounds the wait.
LtWaiting(st, call) ==
    [st EXCEPT !.pc = "waiting", !.prev = st.last, !.last = call]

\* What the collaborator may answer for a chunk of n characters.
RuleIds == {"R1", "R2"}

Matches(n) == [ruleId : RuleIds, offset : 0..Max(0, n - 1), errorLength : {1}]

MatchSeqs(n) == UNION {[1..k -> Matches(n)] : k \in 0..MaxMatches}

(***************************************************************************)
(* The nine heuristic checks. What a check's regular-expression scans find *)
(* in the text is its input: each check is given the counts of its scans   *)
(* and computes penalty, score and sample issues as the code does. The     *)
(* k-th sample issue of a scan carries k as its start.                     *)
(***************************************************************************)
Samples(check_id, message, n) == [k \in 1..n |-> Issue(check_id, message, k)]

\* add_match_issues: at most max_samples = 3 issues for n matches, none once
\* the list holds max_issues_per_check.
add_match_issues(issues, check_id, message, n, max_per_check) ==
    issues \o Samples(check_id, message,
                      Min(n, Min(3, Max(0, max_per_check - Len(issues)))))

\* Clamp without the cap at the check's weight.
Clamp_Uncapped(max_points, raw) == raw

\* penalty = min(max_points, raw); score = max_points - penalty
Clamp(max_points, raw) == Min(max_points, raw)

Scored(check_id, max_points, raw_penalty, issues) ==
    LET penalty == Clamp(max_points, raw_penalty)
    IN  CheckResult(check_id, max_points - penalty, max_points, issues,
                    [penalty_points |-> penalty], "ok")

check_readability(long_sents, max_per_check, max_points) ==
    Scored("readability", max_points, 50 * long_sents,
           Samples("readability", "Very long sentence",
                   Min(long_sents, Min(3, max_per_check))))

check_punctuation_style(n_words, semicolons, ellipses, double_punct, spaced, max_per_check, max_points) ==
    LET words == Max(1, n_words)
        dense == semicolons > 0 /\ 1000 * semicolons > 3 * words
        i1 == IF dense
              THEN add_match_issues(<<>>, "punctuation", "Semicolon usage",
                                    semicolons, max_per_check)
              ELSE <<>>
        i2 == IF ellipses > 2
              THEN add_match_issues(i1, "punctuation", "Ellipsis usage",
                                    ellipses, max_per_check)
              ELSE i1
        i3 == IF double_punct > 0
              THEN add_match_issues(i2, "punctuation", "Repeated punctuation",
                                    double_punct, max_per_check)
              ELSE i2
        i4 == IF spaced > 0
              THEN add_match_issues(i3, "punctuation", "Spaced dash usage",
                                    spaced, max_per_check)
              ELSE i3
        penalty == (IF dense THEN 250 ELSE 0) + (IF ellipses > 2 THEN 150 ELSE 0)
                   + (IF double_punct > 0 THEN 100 ELSE 0)
                   + (IF spaced > 0 THEN 50 ELSE 0)
    IN  Scored("punctuation", max_points, penalty, i4)

\* double_lines and tab_lines are the numbers of lines that hold a double
\* space and a tab.
check_whitespace_formatting(trailing, doubles, double_lines, tabs, tab_lines, max_per_check, max_points) ==
    LET i1 == Samples("whitespace", "Trailing whitespace detected",
                      Min(trailing, max_per_check))
        i2 == IF doubles > 0
              THEN LET s == Append(i1, Issue("whitespace", "double-space occurrence(s)", -1))
                   IN  s \o Samples("whitespace", "Double space detected",
                                    Min(double_lines, Max(0, max_per_check - Len(s))))
              ELSE i1
        i3 == IF tabs > 0
              THEN LET s == Append(i2, Issue("whitespace", "tab character(s) found", -1))
                   IN  s \o Samples("whitespace", "Tab character detected",
                                    Min(tab_lines, Max(0, max_per_check - Len(s))))
              ELSE i2
    IN  Scored("whitespace", max_points, 10 * trailing + 5 * doubles + 10 * tabs, i3)

\* pct and wordpct count the values written with "%" and with the word;
\* decimals of the pct values have a fraction, and every pct value ends in
\* digits before its "%", so the whole-number scan matches pct times.
check_percentage_consistency(pct, wordpct, decimals, max_per_check, max_points) ==
    LET mixed == pct > 0 /\ wordpct > 0
        i1 == IF mixed
              THEN add_match_issues(
                       add_match_issues(<<>>, "percentages", "Percent symbol style",
                                        pct, max_per_check),
                       "percentages", "Percent word style", wordpct, max_per_check)
              ELSE <<>>
        both == decimals > 0 /\ pct > 0
        i2 == IF both
              THEN add_match_issues(
                       add_match_issues(i1, "percentages", "Decimal percentage",
                                        decimals, max_per_check),
                       "percentages", "Whole-number percentage", pct, max_per_check)
              ELSE i1
    IN  Scored("percentages", max_points,
               (IF mixed THEN 200 ELSE 0) + (IF both THEN 50 ELSE 0), i2)

check_headings_capitalization(bad, max_points) ==
    Scored("headings", max_points, 50 * bad,
           Samples("headings", "Heading may not be capitalized", bad))

check_passive_voice(matches, max_per_check, max_points) ==
    Scored("passive_voice", max_points, 5 * matches,
           Samples("passive_voice", "Possible passive construction",
                   Min(matches, max_per_check)))

check_parallel_bullets(inconsistent_blocks, max_points) ==
    Scored("parallel_lists", max_points, 200 * inconsistent_blocks,
           Samples("parallel_lists", "Bullet list with mixed starts",
                   inconsistent_blocks))

check_links_formatting(raw_urls, markdown_links, max_per_check, max_points) ==
    LET bare == raw_urls > 0 /\ markdown_links = 0
    IN  Scored("links", max_points, IF bare THEN 200 ELSE 0,
               IF bare
               THEN add_match_issues(<<>>, "links", "Raw URL found", raw_urls,
                                     max_per_check)
               ELSE <<>>)

check_acronym_definitions(undefined, max_per_check, max_points) ==
    Scored("acronyms", max_points, 100 * Min(undefined, 5),
           Samples("acronyms", "Acronym without a nearby definition",
                   Min(undefined, max_per_check)))

\* What a scan may find: nothing, one match, or so many that every penalty
\* formula exceeds its check's weight.
Counts == {0, 1, BigCount}

\* The results the check id can return on some document, given the options
\* and the text's word count.
ResultsOf(id, n_words, max_per_check, max_points) ==
    CASE id = "readability" ->
           {check_readability(n, max_per_check, max_points) : n \in Counts}
      [] id = "punctuation" ->
           {check_punctuation_style(n_words, f[1], f[2], f[3], f[4], max_per_check,
                                    max_points) :
              f \in Counts \X {0, 3} \X Counts \X Counts}
      [] id = "whitespace" ->
           {check_whitespace_formatting(f[1], f[2], f[3], f[4], f[5], max_per_check,
                                        max_points) :
              f \in {g \in Counts \X Counts \X Counts \X Counts \X Counts :
                       /\ g[3] <= g[2] /\ (g[2] > 0 => g[3] > 0)
                       /\ g[5] <= g[4] /\ (g[4] > 0 => g[5] > 0)}}
      [] id = "percentages" ->
           {check_percentage_consistency(f[1], f[2], f[3], max_per_check, max_points) :
              f \in {g \in Counts \X Counts \X Counts : g[3] <= g[1]}}
      [] id = "headings" ->
           {check_headings_capitalization(n, max_points) : n \in Counts}
      [] id = "passive_voice" ->
           {check_passive_voice(n, max_per_check, max_points) : n \in Counts}
      [] id = "parallel_lists" ->
           {check_parallel_bullets(n, max_points) : n \in Counts}
      [] id = "links" ->
           {check_links_formatting(f[1], f[2], max_per_check, max_points) :
              f \in Counts \X Counts}
      [] id = "acronyms" ->
           {check_acronym_definitions(n, max_per_check, max_points) : n \in Counts}

(***************************************************************************)
(* The scans of the punctuation and whitespace checks, on a text of        *)
(* letters, exclamation marks (BANG), spaces, tabs and terminators. Such a *)
(* text holds no semicolon, ellipsis or dash, so those scans find nothing. *)
(***************************************************************************)
\* The 0-based starts of the matches of a pattern c{2,}: the maximal runs of
\* c that are at least two long.
RunStarts(t, c) ==
    {i - 1 : i \in {j \in 1..(Len(t) - 1) :
                      /\ t[j] = c /\ t[j + 1] = c
                      /\ (j = 1 \/ t[j - 1] # c)}}

\* text.count(c)
CountOf(t, c) == Cardinality({i \in 1..Len(t) : t[i] = c})

\* line.find(c) and line.find(c + c): the 0-based index of the first
\* occurrence, or -1.
Find(line, c, n) ==
    LET at == {i \in 1..(Len(line) - n + 1) : \A k \in 0..(n - 1) : line[i + k] = c}
    IN  IF at = {} THEN -1 ELSE (CHOOSE i \in at : \A j \in at : i <= j) - 1

\* The numbers of the lines that re.search(r"[ \t]+$", line) matches.
TrailingLines(lines) ==
    {n \in 1..Len(lines) :
        Len(lines[n]) > 0 /\ lines[n][Len(lines[n])] \in {"SP", "TAB"}}

\* The numbers of the lines that hold c n times in a row.
LinesWith(lines, c, n) == {k \in 1..Len(lines) : Find(lines[k], c, n) # -1}

\* The k-th element of a set of integers, in ascending order.
Nth(s, k) == SetToSortedSeq(s)[k]

\* The location fields of an Issue: page (NoPage for None), line and col (0
\* for None), and at, the offset of the character that line and col name
\* (-1 for an issue without location).
Location(page_no, line_no, col_no, at) ==
    [page |-> page_no, line |-> line_no, col |-> col_no, at |-> at]

NoLocation == Location(NoPage, 0, 0, -1)

\* issue_from_span(ctx, check_id, message, start, end): the location fields.
issue_from_span(c, start) ==
    LET plc == offset_to_page_line_col(start, c.line_starts, c.page_breaks)
    IN  Location(plc[1], plc[2], plc[3], start)

\* The sample issues of check_whitespace_formatting and the other checks
\* that work line by line: line=line_no, col=col, and the page of the
\* offset o they compute.
line_location(c, line_no, col, o) ==
    Location(IF c.page_breaks # <<>> THEN offset_to_page(o, c.page_breaks)
             ELSE NoPage,
             line_no, col, c.line_starts[line_no] + col - 1)

\* The location the check writes into an issue; start numbers the samples
\* of a scan.
LocationOf(c, issue) ==
    CASE issue.message = "Repeated punctuation" ->
           issue_from_span(c, Nth(RunStarts(c.text, "BANG"), issue.start))
      [] issue.message = "Trailing whitespace detected" ->
           LET line_no == Nth(TrailingLines(c.lines), issue.start)
           IN  line_location(c, line_no, Len(c.lines[line_no]), c.line_starts[line_no])
      [] issue.message = "Double space detected" ->
           LET line_no == Nth(LinesWith(c.lines, "SP", 2), issue.start)
               col     == Find(c.lines[line_no], "SP", 2) + 1
           IN  line_location(c, line_no, col, c.line_starts[line_no] + col - 1)
      [] issue.message = "Tab character detected" ->
           LET line_no == Nth(LinesWith(c.lines, "TAB", 1), issue.start)
               col     == Find(c.lines[line_no], "TAB", 1) + 1
           IN  line_location(c, line_no, col, c.line_starts[line_no] + col - 1)
      [] OTHER -> NoLocation

\* The issues of a result with their location fields.
Located(c, issues) == [k \in 1..Len(issues) |-> issues[k] @@ LocationOf(c, issues[k])]

\* check_punctuation_style(ctx, max_points)
RunPunctuation(c, max_per_check, max_points) ==
    LET double_punct == Cardinality(RunStarts(c.text, "BANG"))
        r == check_punctuation_style(c.words, 0, 0, double_punct, 0,
                                     max_per_check, max_points)
    IN  [r EXCEPT !.metrics = @ @@ [double_punctuations |-> double_punct],
                  !.issues = Located(c, @)]

\* check_whitespace_formatting(ctx, max_points)
RunWhitespace(c, max_per_check, max_points) ==
    LET trailing == Cardinality(TrailingLines(c.lines))
        doubles  == Cardinality(RunStarts(c.text, "SP"))
        tabs     == CountOf(c.text, "TAB")
        r == check_whitespace_formatting(
                 trailing, doubles, Cardinality(LinesWith(c.lines, "SP", 2)),
                 tabs, Cardinality(LinesWith(c.lines, "TAB", 1)),
                 max_per_check, max_points)
    IN  [r EXCEPT !.metrics = @ @@ [trailing_whitespace_lines |-> trailing,
                                    double_spaces |-> doubles,
                                    tab_characters |-> tabs],
                  !.issues = Located(c, @)]

(***************************************************************************)
(* The scan of the parallel-list check. In a text of list lines a          *)
(* character stands for the content of a whole line: GERUND, IMPERATIVE,   *)
(* NOUNPHRASE and OTHER are bullet items, named by what classify_start     *)
(* makes of the item's first word, and PLAIN is a line without a bullet.   *)
(***************************************************************************)
BulletItems == {"GERUND", "IMPERATIVE", "NOUNPHRASE", "OTHER"}

\* bullet_re.match(ln)
IsBullet(ln) == Len(ln) > 0 /\ ln[1] \in BulletItems

\* classify_start(token) for the first word of the item on a bullet line
classify_start(ln) == ln[1]

\* flush_block that keeps a block of two items.
flush_block_TwoItems(blocks, block) ==
    IF Len(block) >= 2 THEN Append(blocks, block) ELSE blocks

\* flush_block: bullet_blocks after the block in progress is closed.
flush_block(blocks, block) ==
    IF Len(block) >= 3 THEN Append(blocks, block) ELSE blocks

\* The loop over the lines from line idx on and the flush after it; a block
\* is the sequence of its line numbers.
RECURSIVE BulletBlocksFrom(_, _, _, _)
BulletBlocksFrom(lines, idx, blocks, block) ==
    IF idx > Len(lines) THEN flush_block(blocks, block)
    ELSE IF IsBullet(lines[idx])
         THEN BulletBlocksFrom(lines, idx + 1, blocks, Append(block, idx))
         ELSE BulletBlocksFrom(lines, idx + 1, flush_block(blocks, block), <<>>)

bullet_blocks(lines) == BulletBlocksFrom(lines, 1, <<>>, <<>>)

\* categories = set(starts) of a block
CategoriesOf(lines, blk) == {classify_start(lines[blk[i]]) : i \in 1..Len(blk)}

\* check_parallel_bullets(ctx, max_points)
RunParallelBullets(c, max_points) ==
    LET blocks == bullet_blocks(c.lines)
        inconsistent_blocks ==
            Cardinality({k \in 1..Len(blocks) :
                            Cardinality(CategoriesOf(c.lines, blocks[k])) > 1})
        r == check_parallel_bullets(inconsistent_blocks, max_points)
    IN  [r EXCEPT !.metrics = @ @@ [bullet_blocks_3plus |-> Len(blocks),
                                    inconsistent_blocks |-> inconsistent_blocks]]

(***************************************************************************)
(* aggregate_report.                                                       *)
(***************************************************************************)
AggIdle ==
    [pc |-> "idle", enabled |-> <<>>, idx |-> 1, results |-> <<>>,
     total_weight |-> 0, available_weight |-> 0, total_score |-> 0,
     raised |-> 0, report |-> [total_score |-> 0, coverage |-> 0,
                              check_results |-> <<>>]]

RECURSIVE SumWeights(_)
SumWeights(enabled) ==
    IF enabled = <<>> THEN 0
    ELSE CHECKS[Head(enabled)].weight + SumWeights(Tail(enabled))

\* The state of aggregate_report before its loop over enabled_checks; enabled
\* holds the positions in CHECKS of the enabled checks, in registration order.
AggStart(enabled) ==
    [AggIdle EXCEPT !.pc = "run", !.enabled = enabled,
                    !.total_weight = SumWeights(enabled)]

\* Contribute without the strict branch.
Contribute_NoStrict(a, weight, result, strict) ==
    IF result.status = "ok"
    THEN [a EXCEPT !.available_weight = @ + weight,
                   !.total_score = @ + result.score]
    ELSE a

\* The accumulation after a check returned result.
Contribute(a, weight, result, strict) ==
    IF result.status = "ok"
    THEN [a EXCEPT !.available_weight = @ + weight,
                   !.total_score = @ + result.score]
    ELSE IF strict
    THEN [a EXCEPT !.available_weight = @ + weight]
    ELSE a

AfterCheck(a, weight, result, strict) ==
    [Contribute(a, weight, result, strict) EXCEPT
        !.results = Append(@, result), !.idx = @ + 1]

\* Truncate that leaves the budget as it was after cutting a check short.
RECURSIVE Truncate_BudgetKept(_, _)
Truncate_BudgetKept(results, remaining) ==
    IF results = <<>> THEN <<>>
    ELSE LET r == Head(results)
             n == Len(r.issues)
         IN  IF remaining <= 0
             THEN <<IF n > 0
                    THEN [r EXCEPT !.metrics = ("issues_truncated" :> n) @@ @,
                                   !.issues = <<>>]
                    ELSE r>> \o Truncate_BudgetKept(Tail(results), remaining)
             ELSE IF n > remaining
             THEN <<[r EXCEPT !.metrics = ("issues_truncated" :> (n - remaining)) @@ @,
                              !.issues = SubSeq(@, 1, remaining)]>>
                  \o Truncate_BudgetKept(Tail(results), remaining)
             ELSE <<r>> \o Truncate_BudgetKept(Tail(results), remaining - n)

\* Truncate that clears the issues of a check reached without budget and
\* records nothing.
RECURSIVE Truncate_NoAnnotation(_, _)
Truncate_NoAnnotation(results, remaining) ==
    IF results = <<>> THEN <<>>
    ELSE LET r == Head(results)
             n == Len(r.issues)
         IN  IF remaining <= 0
             THEN <<[r EXCEPT !.issues = <<>>]>>
                  \o Truncate_NoAnnotation(Tail(results), remaining)
             ELSE IF n > remaining
             THEN <<[r EXCEPT !.metrics = ("issues_truncated" :> (n - remaining)) @@ @,
                              !.issues = SubSeq(@, 1, remaining)]>>
                  \o Truncate_NoAnnotation(Tail(results), 0)
             ELSE <<r>> \o Truncate_NoAnnotation(Tail(results), remaining - n)

\* The walk over results with the global issue budget.
RECURSIVE Truncate(_, _)
Truncate(results, remaining) ==
    IF results = <<>> THEN <<>>
    ELSE LET r == Head(results)
             n == Len(r.issues)
         IN  IF remaining <= 0
             THEN <<IF n > 0
                    THEN [r EXCEPT !.metrics = ("issues_truncated" :> n) @@ @,
                                   !.issues = <<>>]
                    ELSE r>> \o Truncate(Tail(results), remaining)
             ELSE IF n > remaining
             THEN <<[r EXCEPT !.metrics = ("issues_truncated" :> (n - remaining)) @@ @,
                              !.issues = SubSeq(@, 1, remaining)]>>
                  \o Truncate(Tail(results), 0)
             ELSE <<r>> \o Truncate(Tail(results), remaining - n)

\* ApplyBudget without the test max_issues > 0.
ApplyBudget_Always(results, max_issues) == Truncate(results, max_issues)

\* if options.max_issues and options.max_issues > 0: the walk; else nothing
ApplyBudget(results, max_issues) ==
    IF max_issues > 0 THEN Truncate(results, max_issues) ELSE results

\* coverage = round(100.0 * available_weight / total_weight, 2), in hundredths
Coverage(available_weight, total_weight) ==
    IF total_weight # 0 THEN RoundDiv(10000 * available_weight, total_weight) ELSE 0

\* NormalizedScore over the configured weight instead of the available weight.
NormalizedScore_OverConfigured(total_score, available_weight) ==
    IF available_weight > 0 THEN RoundDiv(10000 * total_score, agg.total_weight) ELSE 0

\* normalized_score = round(100 * total_score / available_weight, 2)
NormalizedScore(total_score, available_weight) ==
    IF available_weight > 0 THEN RoundDiv(10000 * total_score, available_weight) ELSE 0

AggCurrent == CHECKS[agg.enabled[agg.idx]]

AggRunning == agg.pc = "run" /\ agg.idx <= Len(agg.enabled)

\* check_language_tool up to the construction of the tool.
LtCall ==
    /\ lt.pc = "idle"
    /\ sys = "agg" => AggRunning /\ AggCurrent.check_id = "language_tool"
    /\ IF ~options.enable_langtool \/ ~langtool_lib
       THEN lt' = [lt EXCEPT !.pc = "returned", !.result = LtSkipped(LtMaxPoints)]
       ELSE \E ctor_raises \in BOOLEAN, hint \in BOOLEAN :
                IF ctor_raises
                THEN lt' = [lt EXCEPT !.pc = "returned", !.raised = "constructor",
                                      !.result = LtError(LtMaxPoints, hint)]
                ELSE /\ hint = FALSE
                     /\ lt' = [lt EXCEPT !.pc = "iter", !.next = 0]
    /\ UNCHANGED <<sys, txt, textVars, options, langtool_lib, agg, run, gen, ctx, checked>>

\* One iteration of the loop over iter_text_chunks: tool.check(chunk) and the
\* matches it returned.
LtChunk ==
    /\ lt.pc = "iter"
    /\ lt.next # -1
    /\ LET start == lt.next
           end   == ChunkEnd(txt, start, options.lt_chunk_size)
       IN  \/ \E hint \in BOOLEAN :
                lt' = LtRaised(lt, LtCallOf(start, end, "raised", 0), hint)
           \/ \E ms \in MatchSeqs(end - start) :
                lt' = LtReturned(lt, LtCallOf(start, end, "returned",
                                              Len(ms) - Cardinality(KeysOf(ms, start)
                                                                    \ lt.returned)), ms,
                                 NextChunkStart(txt, end, options.lt_chunk_size,
                                                options.lt_overlap),
                                 options.max_issues_per_check)
           \/ lt' = LtWaiting(lt, LtCallOf(start, end, "waiting", 0))
    /\ UNCHANGED <<sys, txt, textVars, options, langtool_lib, agg, run, gen, ctx, checked>>

\* The generator is exhausted: metrics, penalty and the ok result.
LtFinish ==
    /\ lt.pc = "iter"
    /\ lt.next = -1
    /\ lt' = [lt EXCEPT !.pc = "returned",
                        !.result = LtOk(LtMaxPoints, word_tokens(txt),
                                        lt.total_matches, lt.issues)]
    /\ UNCHANGED <<sys, txt, textVars, options, langtool_lib, agg, run, gen, ctx, checked>>

\* One iteration of the loop for a heuristic check: check.func returns a
\* result, or raises; nothing in aggregate_report or main catches that.
RunCheck ==
    /\ sys = "agg"
    /\ AggRunning
    /\ AggCurrent.check_id # "language_tool"
    /\ \/ \E result \in ResultsOf(AggCurrent.check_id, word_tokens(txt),
                                  options.max_issues_per_check, AggCurrent.weight) :
            agg' = AfterCheck(agg, AggCurrent.weight, result, options.strict)
       \/ agg' = [agg EXCEPT !.pc = "propagated", !.raised = agg.enabled[agg.idx]]
    /\ UNCHANGED <<sys, txt, textVars, options, langtool_lib, lt, run, gen, ctx, checked>>

\* The iteration for check_language_tool, once it has returned.
RunLanguageTool ==
    /\ sys = "agg"
    /\ AggRunning
    /\ AggCurrent.check_id = "language_tool"
    /\ lt.pc = "returned"
    /\ agg' = AfterCheck(agg, AggCurrent.weight, lt.result, options.strict)
    /\ UNCHANGED <<sys, txt, textVars, options, langtool_lib, lt, run, gen, ctx, checked>>

\* After the loop: the issue budget, coverage, the normalized score, the report.
Finish ==
    /\ sys = "agg"
    /\ agg.pc = "run"
    /\ agg.idx > Len(agg.enabled)
    /\ agg' = [agg EXCEPT
                 !.pc = "done",
                 !.results = ApplyBudget(@, options.max_issues),
                 !.report = [total_score |-> NormalizedScore(agg.total_score,
                                                             agg.available_weight),
                             coverage |-> Coverage(agg.available_weight,
                                                   agg.total_weight),
                             check_results |-> ApplyBudget(agg.results,
                                                           options.max_issues)]]
    /\ UNCHANGED <<sys, txt, textVars, options, langtool_lib, lt, run, gen, ctx, checked>>

\* main's --enable / --disable filter keeps registration order.
EnabledLists ==
    {SetToSortedSeq(s) : s \in {e \in SUBSET (1..Len(CHECKS)) : Cardinality(e) <= MaxEnabled}}

AggOptions ==
    [max_issues : (-1)..MaxIssues, max_issues_per_check : 0..MaxPerCheck,
     lt_chunk_size : {DefaultOptions.lt_chunk_size},
     lt_overlap : {DefaultOptions.lt_overlap},
     strict : BOOLEAN, enable_langtool : BOOLEAN]

\* The empty document and a one-word document.
AggTexts == {<<>>, <<"E">>}

InitAgg ==
    /\ sys = "agg"
    /\ txt \in AggTexts
    /\ offset = 0
    /\ out = <<>>
    /\ line_starts = <<>>
    /\ loc = <<>>
    /\ page_breaks = <<>>
    /\ page = -1
    /\ ploc = <<>>
    /\ options \in AggOptions
    /\ langtool_lib \in BOOLEAN
    /\ lt = LtIdle
    /\ run = RunIdle
    /\ gen = GenIdle
    /\ ctx = NoContext
    /\ checked = NoChecks
    /\ \E enabled \in EnabledLists :
         /\ agg = AggStart(enabled)
         \* enable_langtool and the import are read by check_language_tool only
         /\ (\A i \in 1..Len(enabled) : CHECKS[enabled[i]].check_id # "language_tool")
               => options.enable_langtool /\ langtool_lib

NextAgg == RunCheck \/ LtCall \/ LtChunk \/ LtFinish \/ RunLanguageTool \/ Finish

SpecAgg == InitAgg /\ [][NextAgg]_vars

(***************************************************************************)
(* aggregate_report with LanguageTool available and enabled first, on      *)
(* documents of several chunks.                                            *)
(***************************************************************************)
\* language_tool and up to MaxFollowing of the checks registered after it.
LtFirstLists ==
    {<<1>> \o SetToSortedSeq(e) :
        e \in {f \in SUBSET (2..Len(CHECKS)) : Cardinality(f) <= MaxFollowing}}

\* The default chunking, and one character per chunk without overlap.
AggLTOptions ==
    [max_issues : {DefaultOptions.max_issues},
     max_issues_per_check : 0..MaxPerCheck,
     lt_chunk_size : {1, DefaultOptions.lt_chunk_size},
     lt_overlap : {0, DefaultOptions.lt_overlap},
     strict : BOOLEAN, enable_langtool : {TRUE}]

\* A document of one chunk and a document of two.
AggLTTexts == {<<"E">>, <<"E", "SP">>}

InitAggLT ==
    /\ sys = "agg"
    /\ txt \in AggLTTexts
    /\ offset = 0
    /\ out = <<>>
    /\ line_starts = <<>>
    /\ loc = <<>>
    /\ page_breaks = <<>>
    /\ page = -1
    /\ ploc = <<>>
    /\ options \in AggLTOptions
    /\ langtool_lib = TRUE
    /\ lt = LtIdle
    /\ run = RunIdle
    /\ gen = GenIdle
    /\ ctx = NoContext
    /\ checked = NoChecks
    /\ \E enabled \in LtFirstLists : agg = AggStart(enabled)

SpecAggLT == InitAggLT /\ [][NextAgg]_vars

LtTexts == UNION {[1..n -> {"E", "SP", "LF"}] : n \in 0..MaxLen}

LtOptions ==
    [max_issues : {0}, max_issues_per_check : 0..MaxPerCheck,
     lt_chunk_size : 0..MaxChunk, lt_overlap : 0..MaxOverlap,
     strict : {FALSE}, enable_langtool : BOOLEAN]

InitLT ==
    /\ sys = "lt"
    /\ txt \in LtTexts
    /\ offset = 0
    /\ out = <<>>
    /\ line_starts = <<>>
    /\ loc = <<>>
    /\ page_breaks = <<>>
    /\ page = -1
    /\ ploc = <<>>
    /\ options \in LtOptions
    /\ langtool_lib \in BOOLEAN
    /\ lt = LtIdle
    /\ agg = AggIdle
    /\ run = RunIdle
    /\ gen = GenIdle
    /\ ctx = NoContext
    /\ checked = NoChecks

NextLT == LtCall \/ LtChunk \/ LtFinish

SpecLT == InitLT /\ [][NextLT]_vars

\* check_language_tool runs to its return unless a call it makes does not
\* return.
SpecLTLive == SpecLT /\ WF_vars(NextLT)

(***************************************************************************)
(* iter_text_chunks by itself: one action per resumption of the generator. *)
(***************************************************************************)
WinTexts == UNION {[1..n -> {"E", "SP", "LF"}] : n \in 0..MaxWinText}

WinOptions ==
    [DefaultOptions EXCEPT !.lt_chunk_size = 0, !.lt_overlap = 0]

InitChunk ==
    /\ sys = "chunk"
    /\ txt \in WinTexts
    /\ offset = 0
    /\ out = <<>>
    /\ line_starts = <<>>
    /\ loc = <<>>
    /\ page_breaks = <<>>
    /\ page = -1
    /\ ploc = <<>>
    /\ \E max_chars \in (-1)..MaxWin, overlap \in 0..MaxWinOverlap :
          options = [WinOptions EXCEPT !.lt_chunk_size = max_chars,
                                       !.lt_overlap = overlap]
    /\ langtool_lib = FALSE
    /\ lt = LtIdle
    /\ agg = AggIdle
    /\ run = RunIdle
    /\ gen = GenIdle
    /\ ctx = NoContext
    /\ checked = NoChecks

\* next() on the generator: it yields the window at start, or is exhausted.
\* The generator keeps nothing but start, so once it yields from a start it
\* has yielded from before it repeats the same windows for ever ("cycling");
\* windows holds them up to the first repetition.
ChunkYield ==
    /\ sys = "chunk"
    /\ gen.pc \in {"idle", "yielded", "cycling"}
    /\ gen.pc = "cycling" \/ Len(gen.windows) < MaxYields
    /\ LET start == IF gen.pc = "idle" THEN 0
                    ELSE NextChunkStart(txt, ChunkEnd(txt, gen.start,
                                                      options.lt_chunk_size),
                                        options.lt_chunk_size, options.lt_overlap)
           end   == ChunkEnd(txt, start, options.lt_chunk_size)
       IN  IF start = -1
           THEN gen' = [gen EXCEPT !.pc = "exhausted"]
           ELSE gen' = [gen EXCEPT
                          !.pc = IF \E j \in 1..Len(gen.windows) :
                                       gen.windows[j][1] = start
                                 THEN "cycling" ELSE "yielded",
                          !.start = start,
                          !.windows = IF gen.pc = "cycling" THEN @
                                      ELSE Append(@, <<start, end,
                                                       SubSeq(txt, start + 1, end)>>)]
    /\ UNCHANGED <<sys, txt, textVars, options, langtool_lib, lt, agg, run, ctx, checked>>

NextChunk == ChunkYield

SpecChunk == InitChunk /\ [][NextChunk]_vars

\* The consumer keeps calling next() until the generator is exhausted.
SpecChunkLive == SpecChunk /\ WF_vars(NextChunk)

(***************************************************************************)
(* The audit of one document with the punctuation and whitespace checks    *)
(* enabled: main reads and normalizes the text, aggregate_report builds    *)
(* the context, and each check runs on it once. The order of the two calls *)
(* is left open.                                                           *)
(***************************************************************************)
\* The pieces a document is written from.
DocTokens ==
    {<<"E">>, <<"BANG", "BANG">>, <<"SP">>, <<"SP", "SP">>, <<"TAB">>, <<"LF">>,
     <<"FF">>}

RECURSIVE Flatten(_)
Flatten(pieces) ==
    IF pieces = <<>> THEN <<>> ELSE Head(pieces) \o Flatten(Tail(pieces))

DocTexts == {Flatten(ps) : ps \in UNION {[1..n -> DocTokens] : n \in 0..MaxTokens}}

DocOptions ==
    {[DefaultOptions EXCEPT !.max_issues_per_check = n] :
        n \in {MaxPerCheck, DefaultOptions.max_issues_per_check}}

InitDoc ==
    /\ sys = "doc"
    /\ txt \in DocTexts
    /\ offset = 0
    /\ out = <<>>
    /\ line_starts = <<>>
    /\ loc = <<>>
    /\ page_breaks = <<>>
    /\ page = -1
    /\ ploc = <<>>
    /\ options \in DocOptions
    /\ langtool_lib = FALSE
    /\ lt = LtIdle
    /\ agg = AggIdle
    /\ run = RunIdle
    /\ gen = GenIdle
    /\ ctx = NoContext
    /\ checked = NoChecks

\* main: text = normalize_text(doc.text)
ReadNormalize ==
    /\ sys \in {"doc", "lists"}
    /\ out = <<>>
    /\ out' = <<normalize_text(txt)>>
    /\ UNCHANGED <<sys, txt, offset, line_starts, loc, page_breaks, page, ploc,
                   options, langtool_lib, lt, agg, run, gen, ctx, checked>>

\* aggregate_report: ctx = build_context(text, language, options)
BuildContext ==
    /\ sys \in {"doc", "lists"}
    /\ out # <<>>
    /\ ctx = NoContext
    /\ ctx' = build_context(out[1])
    /\ UNCHANGED <<sys, txt, textVars, options, langtool_lib, lt, agg, run, gen,
                   checked>>

\* ContextAfter of a check that uses up ctx.lines as it reads them.
ContextAfter_Consumed(c, check_id) == [c EXCEPT !.lines = <<>>]

\* The context a check leaves behind: no check assigns to a field of ctx or
\* changes one of its lists.
ContextAfter(c, check_id) == c

\* check.func(ctx, check.weight) for the check at position k of CHECKS.
Returned(k, result) ==
    /\ ctx # NoContext
    /\ CHECKS[k].check_id \notin DOMAIN checked
    /\ checked' = (CHECKS[k].check_id :> result) @@ checked
    /\ ctx' = ContextAfter(ctx, CHECKS[k].check_id)
    /\ UNCHANGED <<sys, txt, textVars, options, langtool_lib, lt, agg, run, gen>>

CheckPunctuation ==
    /\ sys = "doc"
    /\ Returned(3, RunPunctuation(ctx, options.max_issues_per_check, CHECKS[3].weight))

CheckWhitespace ==
    /\ sys = "doc"
    /\ Returned(4, RunWhitespace(ctx, options.max_issues_per_check, CHECKS[4].weight))

NextDoc == ReadNormalize \/ BuildContext \/ CheckPunctuation \/ CheckWhitespace

SpecDoc == InitDoc /\ [][NextDoc]_vars

(***************************************************************************)
(* The audit of a document of list lines with the parallel-list check      *)
(* enabled.                                                                *)
(***************************************************************************)
\* The lines a list document is written from: a bullet item, a line without
\* a bullet, a blank line.
ListLines == {<<b>> : b \in BulletItems} \cup {<<"PLAIN">>, <<>>}

\* "\n".join(lines)
RECURSIVE Join(_)
Join(lines) ==
    IF lines = <<>> THEN <<>>
    ELSE IF Len(lines) = 1 THEN lines[1]
    ELSE lines[1] \o <<"LF">> \o Join(Tail(lines))

\* A list of three items that start with a gerund, another word and a
\* determiner, and the line that ends it.
MixedBlock == <<<<"GERUND">>, <<"OTHER">>, <<"NOUNPHRASE">>, <<"PLAIN">>>>

RECURSIVE Repeat(_, _)
Repeat(lines, n) == IF n = 0 THEN <<>> ELSE lines \o Repeat(lines, n - 1)

\* Up to MaxBlocks mixed lists, then up to MaxListLines lines of any kind.
ListTexts ==
    {Join(Repeat(MixedBlock, k) \o ls) :
        k \in 0..MaxBlocks, ls \in UNION {[1..n -> ListLines] : n \in 0..MaxListLines}}

InitLists ==
    /\ sys = "lists"
    /\ txt \in ListTexts
    /\ offset = 0
    /\ out = <<>>
    /\ line_starts = <<>>
    /\ loc = <<>>
    /\ page_breaks = <<>>
    /\ page = -1
    /\ ploc = <<>>
    /\ options = DefaultOptions
    /\ langtool_lib = FALSE
    /\ lt = LtIdle
    /\ agg = AggIdle
    /\ run = RunIdle
    /\ gen = GenIdle
    /\ ctx = NoContext
    /\ checked = NoChecks

CheckParallelBullets ==
    /\ sys = "lists"
    /\ Returned(8, RunParallelBullets(ctx, CHECKS[8].weight))

NextLists == ReadNormalize \/ BuildContext \/ CheckParallelBullets

SpecLists == InitLists /\ [][NextLists]_vars

(***************************************************************************)
(* main: the loop over the input paths of a batch run. The file system,    *)
(* the readers and the audit of a document are the environment of the      *)
(* loop: a path is missing, unreadable, or read and audited, and the audit *)
(* returns a report or raises.                                             *)
(***************************************************************************)
\* total_score and coverage of a report, in hundredths.
Percents == {0, 5000, 10000}

\* --fail-under and --min-coverage: not given (None), or a value.
Thresholds ==
    {[given |-> FALSE, value |-> 0]} \cup [given : {TRUE}, value : {5000, 10000}]

\* What became of one input path.
Doc(kind, total_score, coverage) ==
    [kind |-> kind, total_score |-> total_score, coverage |-> coverage]

\* RaiseExit that overwrites the exit code.
RaiseExit_Overwrite(exit_code, code) == code

\* exit_code = max(exit_code, code)
RaiseExit(exit_code, code) == Max(exit_code, code)

\* SkipDocument that ends the batch at the failed path.
SkipDocument_Abort(r, kind) ==
    [r EXCEPT !.pc = "returned",
              !.exit_code = RaiseExit(@, 2),
              !.logged = @ \cup {r.idx},
              !.docs = Append(@, Doc(kind, 0, 0))]

\* LOGGER.error, exit code 2, continue.
SkipDocument(r, kind) ==
    [r EXCEPT !.exit_code = RaiseExit(@, 2),
              !.logged = @ \cup {r.idx},
              !.docs = Append(@, Doc(kind, 0, 0)),
              !.idx = @ + 1]

\* The exit code after the two threshold tests on a report.
AfterThresholds(exit_code, total_score, coverage, fail_under, min_coverage) ==
    LET e == IF fail_under.given /\ total_score < fail_under.value
             THEN RaiseExit(exit_code, 3) ELSE exit_code
    IN  IF min_coverage.given /\ coverage < min_coverage.value
        THEN RaiseExit(e, 4) ELSE e

InitMain ==
    /\ sys = "main"
    /\ txt = <<>>
    /\ offset = 0
    /\ out = <<>>
    /\ line_starts = <<>>
    /\ loc = <<>>
    /\ page_breaks = <<>>
    /\ page = -1
    /\ ploc = <<>>
    /\ options = DefaultOptions
    /\ langtool_lib = FALSE
    /\ lt = LtIdle
    /\ agg = AggIdle
    /\ gen = GenIdle
    /\ ctx = NoContext
    /\ checked = NoChecks
    /\ \E n \in 1..MaxFiles, fail_under \in Thresholds, min_coverage \in Thresholds :
          run = [pc |-> "loop", files |-> n, idx |-> 1, exit_code |-> 0,
                 docs |-> <<>>, logged |-> {}, written |-> {},
                 fail_under |-> fail_under, min_coverage |-> min_coverage]

MainLooping == sys = "main" /\ run.pc = "loop" /\ run.idx <= run.files

\* os.path.exists(file_path) is false.
FileMissing ==
    /\ MainLooping
    /\ run' = SkipDocument(run, "missing")
    /\ UNCHANGED <<sys, txt, textVars, options, langtool_lib, lt, agg, gen, ctx, checked>>

\* read_text_from_file or normalize_text raised.
ReadFails ==
    /\ MainLooping
    /\ run' = SkipDocument(run, "unreadable")
    /\ UNCHANGED <<sys, txt, textVars, options, langtool_lib, lt, agg, gen, ctx, checked>>

\* The document was read: aggregate_report, the report files, the thresholds.
\* An exception of aggregate_report or of writing a report is not caught.
AuditFile ==
    /\ MainLooping
    /\ \/ \E total_score \in Percents, coverage \in Percents :
            run' = [run EXCEPT
                      !.written = @ \cup {run.idx},
                      !.exit_code = AfterThresholds(@, total_score, coverage,
                                                    run.fail_under, run.min_coverage),
                      !.docs = Append(@, Doc("audited", total_score, coverage)),
                      !.idx = @ + 1]
       \/ run' = [run EXCEPT !.pc = "propagated",
                             !.docs = Append(@, Doc("crashed", 0, 0))]
    /\ UNCHANGED <<sys, txt, textVars, options, langtool_lib, lt, agg, gen, ctx, checked>>

\* return exit_code
MainReturn ==
    /\ sys = "main"
    /\ run.pc = "loop"
    /\ run.idx > run.files
    /\ run' = [run EXCEPT !.pc = "returned"]
    /\ UNCHANGED <<sys, txt, textVars, options, langtool_lib, lt, agg, gen, ctx, checked>>

NextMain == FileMissing \/ ReadFails \/ AuditFile \/ MainReturn

SpecMain == InitMain /\ [][NextMain]_vars

(***************************************************************************)
(* The text pipeline: normalize (and normalize again), build the            *)
(* line-start table, resolve an offset.                                    *)
(***************************************************************************)
InitText ==
    /\ sys = "text"
    /\ txt \in Texts
    /\ offset \in 0..(Len(txt) + 1)
    /\ out = <<>>
    /\ line_starts = <<>>
    /\ loc = <<>>
    /\ page_breaks = <<>>
    /\ page = -1
    /\ ploc = <<>>
    /\ options = DefaultOptions
    /\ langtool_lib = FALSE
    /\ lt = LtIdle
    /\ agg = AggIdle
    /\ run = RunIdle
    /\ gen = GenIdle
    /\ ctx = NoContext
    /\ checked = NoChecks

Normalize ==
    /\ sys = "text"
    /\ Len(out) < 2
    /\ out' = Append(out, normalize_text(IF out = <<>> THEN txt ELSE out[Len(out)]))
    /\ UNCHANGED <<sys, txt, offset, line_starts, loc, page_breaks, page, ploc, engineVars>>

\* build_context: the two tables of the text.
BuildIndex ==
    /\ sys = "text"
    /\ line_starts = <<>>
    /\ line_starts' = build_line_starts(txt)
    /\ page_breaks' = build_page_breaks(txt)
    /\ UNCHANGED <<sys, txt, offset, out, loc, page, ploc, engineVars>>

Resolve ==
    /\ sys = "text"
    /\ line_starts # <<>>
    /\ loc = <<>>
    /\ loc' = offset_to_line_col(offset, line_starts)
    /\ UNCHANGED <<sys, txt, offset, out, line_starts, page_breaks, page, ploc, engineVars>>

ResolvePage ==
    /\ sys = "text"
    /\ line_starts # <<>>
    /\ page = -1
    /\ page' = offset_to_page(offset, page_breaks)
    /\ UNCHANGED <<sys, txt, offset, out, line_starts, loc, page_breaks, ploc, engineVars>>

\* issue_from_span resolves the start of the span.
ResolvePageLineCol ==
    /\ sys = "text"
    /\ line_starts # <<>>
    /\ ploc = <<>>
    /\ ploc' = offset_to_page_line_col(offset, line_starts, page_breaks)
    /\ UNCHANGED <<sys, txt, offset, out, line_starts, loc, page_breaks, page, engineVars>>

NextText == Normalize \/ BuildIndex \/ Resolve \/ ResolvePage \/ ResolvePageLineCol

SpecText == InitText /\ [][NextText]_vars

(***************************************************************************)
(* Sums over a list of check results, for the statements below.            *)
(***************************************************************************)
RECURSIVE SumIssues(_)
SumIssues(results) ==
    IF results = <<>> THEN 0
    ELSE Len(Head(results).issues) + SumIssues(Tail(results))

\* Whether a result counts toward the denominator of the score.
Contributes(result, strict) == result.status = "ok" \/ strict

\* The weight of the contributing checks among the first n executed.
RECURSIVE ContributingWeight(_, _, _, _)
ContributingWeight(results, enabled, strict, n) ==
    IF n = 0 THEN 0
    ELSE (IF Contributes(results[n], strict) THEN CHECKS[enabled[n]].weight ELSE 0)
         + ContributingWeight(results, enabled, strict, n - 1)

\* The scores of the contributing checks among the first n executed.
RECURSIVE ContributingScore(_, _, _)
ContributingScore(results, strict, n) ==
    IF n = 0 THEN 0
    ELSE (IF Contributes(results[n], strict) THEN results[n].score ELSE 0)
         + ContributingScore(results, strict, n - 1)

RegisteredWeight == SumWeights([i \in 1..Len(CHECKS) |-> i])

AggDone == sys = "agg" /\ agg.pc = "done"

(***************************************************************************)
(* C1. Issue-budget conservation: in a report built with max_issues > 0,   *)
(* the check results hold at most max_issues issues altogether.            *)
(***************************************************************************)
C1_IssueBudget ==
    AggDone /\ options.max_issues > 0 =>
        SumIssues(agg.report.check_results) <= options.max_issues

\* A report whose budget is used up, with one check cut short and a later one
\* emptied.
C1_Witness ==
    /\ AggDone
    /\ options.max_issues > 0
    /\ SumIssues(agg.report.check_results) = options.max_issues
    /\ Len(agg.report.check_results) = 2
    /\ Len(agg.report.check_results[1].issues) > 0
    /\ "issues_truncated" \in DOMAIN agg.report.check_results[1].metrics
    /\ "issues_truncated" \in DOMAIN agg.report.check_results[2].metrics

(***************************************************************************)
(* C2. Score bounds: every check result has 0 <= score <= max_score, and   *)
(* every report has 0 <= total_score <= 100 and 0 <= coverage <= 100.      *)
(***************************************************************************)
C2_ScoreBounds ==
    /\ \A i \in 1..Len(agg.results) :
          /\ 0 <= agg.results[i].score
          /\ agg.results[i].score <= agg.results[i].max_score
    /\ lt.pc = "returned" =>
          /\ 0 <= lt.result.score
          /\ lt.result.score <= lt.result.max_score
    /\ AggDone =>
          /\ 0 <= agg.report.total_score /\ agg.report.total_score <= 10000
          /\ 0 <= agg.report.coverage /\ agg.report.coverage <= 10000

\* A strict report with an errored grammar check and a check whose penalty was
\* clamped to its weight.
C2_Witness ==
    /\ AggDone
    /\ options.strict
    /\ Len(agg.results) = 2
    /\ agg.results[1].status = "error"
    /\ agg.results[2].status = "ok"
    /\ agg.results[2].score = 0
    /\ agg.report.coverage = 10000

(***************************************************************************)
(* C3. The reported coverage is 100 x (weight of the contributing checks)  *)
(* / (weight of all registered checks): punctuation and whitespace alone   *)
(* report a coverage of 15.                                                *)
(***************************************************************************)
C3_CoverageOverRegistry ==
    AggDone =>
        agg.report.coverage * RegisteredWeight
            = 10000 * ContributingWeight(agg.results, agg.enabled, options.strict,
                                         Len(agg.results))

(***************************************************************************)
(* C4. Coverage monotonicity: the same audit with one enabled check        *)
(* removed reports a strictly smaller coverage, smaller by exactly that    *)
(* check's share of the registered weight.                                 *)
(***************************************************************************)
Without(seq, k) == SubSeq(seq, 1, k - 1) \o SubSeq(seq, k + 1, Len(seq))

\* The coverage aggregate_report computes for the enabled checks without the
\* k-th, whose results are those of this audit.
CoverageWithout(k) ==
    LET enabled == Without(agg.enabled, k)
        results == Without(agg.results, k)
    IN  Coverage(ContributingWeight(results, enabled, options.strict, Len(results)),
                 SumWeights(enabled))

C4_CoverageMonotone ==
    AggDone =>
        \A k \in 1..Len(agg.enabled) :
            /\ CoverageWithout(k) < agg.report.coverage
            /\ (agg.report.coverage - CoverageWithout(k)) * RegisteredWeight
                 = 10000 * CHECKS[agg.enabled[k]].weight

(***************************************************************************)
(* C5. total_score is 100 x (scores of the contributing checks) / (weight  *)
(* of the contributing checks), and 0 when no check contributes.           *)
(***************************************************************************)
C5_ExactQuotient ==
    AggDone =>
        LET n == Len(agg.results)
            w == ContributingWeight(agg.results, agg.enabled, options.strict, n)
            s == ContributingScore(agg.results, options.strict, n)
        IN  /\ w > 0 => agg.report.total_score * w = 10000 * s
            /\ w = 0 => agg.report.total_score = 0

\* C5 as amended: total_score is that quotient rounded to two decimals (it
\* lies within half a hundredth of it), and 0 when no check contributes.
C5_RoundedQuotient ==
    AggDone =>
        LET n == Len(agg.results)
            w == ContributingWeight(agg.results, agg.enabled, options.strict, n)
            s == ContributingScore(agg.results, options.strict, n)
            d == agg.report.total_score * w - 10000 * s
        IN  /\ w > 0 => 2 * d <= w /\ -2 * d <= w
            /\ w = 0 => agg.report.total_score = 0

\* A non-strict report over a skipped grammar check and a scored check that
\* lost points.
C5_Witness ==
    /\ AggDone
    /\ ~options.strict
    /\ Len(agg.results) = 2
    /\ agg.results[1].status = "skipped"
    /\ agg.results[2].status = "ok"
    /\ agg.results[2].score < agg.results[2].max_score
    /\ agg.report.total_score > 0

(***************************************************************************)
(* C6. Contribution state machine: an iteration whose check returned ok    *)
(* adds the check's weight to available_weight and its score to            *)
(* total_score; one that returned skipped or error adds nothing when not   *)
(* strict, and the weight alone when strict; no other step changes the     *)
(* accumulators.                                                           *)
(***************************************************************************)
C6_Contribution ==
    [][ LET dw == agg'.available_weight - agg.available_weight
            ds == agg'.total_score - agg.total_score
        IN  IF Len(agg'.results) = Len(agg.results) + 1
            THEN LET r == agg'.results[Len(agg'.results)]
                     w == CHECKS[agg.enabled[agg.idx]].weight
                 IN  /\ r.status \in {"ok", "skipped", "error"}
                     /\ r.status = "ok" => dw = w /\ ds = r.score
                     /\ r.status # "ok" /\ ~options.strict => dw = 0 /\ ds = 0
                     /\ r.status # "ok" /\ options.strict => dw = w /\ ds = 0
            ELSE dw = 0 /\ ds = 0 ]_vars

\* A strict run that has counted the weight of an errored grammar check and
\* then weight and score of a scored check.
C6_Witness ==
    /\ sys = "agg"
    /\ options.strict
    /\ Len(agg.results) = 2
    /\ agg.results[1].status = "error"
    /\ agg.results[2].status = "ok"
    /\ agg.results[2].score > 0
    /\ agg.available_weight = CHECKS[agg.enabled[1]].weight + CHECKS[agg.enabled[2]].weight
    /\ agg.total_score = agg.results[2].score

(***************************************************************************)
(* C7. No exception of a check propagates out of aggregate_report: when a  *)
(* check raises, its result is an error CheckResult with its check id, the *)
(* remaining checks run and a report is returned.                          *)
(***************************************************************************)
C7_ExceptionContained ==
    sys = "agg" /\ agg.raised # 0 =>
        /\ agg.pc # "propagated"
        /\ \E i \in 1..Len(agg.results) :
              /\ agg.results[i].check_id = CHECKS[agg.raised].check_id
              /\ agg.results[i].status = "error"

(***************************************************************************)
(* C8. Offset round-trip: once a valid offset o of a text is resolved to   *)
(* (line, col) over the text's line-start table, the start of that line    *)
(* plus (col - 1) is o again.                                              *)
(***************************************************************************)
C8_OffsetRoundTrip ==
    loc # <<>> =>
        /\ loc[1] \in 1..Len(line_starts)
        /\ line_starts[loc[1]] + (loc[2] - 1) = offset

\* An offset past the first column of a later line has been resolved.
C8_Witness ==
    /\ loc # <<>>
    /\ loc[1] > 1
    /\ loc[2] > 1

(***************************************************************************)
(* C9. normalize_text is idempotent: normalizing the normalized text       *)
(* gives the normalized text.                                              *)
(***************************************************************************)
C9_NormalizeIdempotent == Len(out) = 2 => out[2] = out[1]

(***************************************************************************)
(* C10. check_language_tool returns status skipped exactly when the tool   *)
(* is disabled or the library is missing, error exactly when constructing  *)
(* the tool or a tool.check call raised, and ok otherwise; a skipped or    *)
(* error result has score 0 and only the explanatory messages as issues.   *)
(***************************************************************************)
C10_LtStatus ==
    lt.pc = "returned" =>
        LET unavailable == ~options.enable_langtool \/ ~langtool_lib
            r == lt.result
        IN  /\ r.status \in {"skipped", "error", "ok"}
            /\ r.status = "skipped" <=> unavailable
            /\ r.status = "error" <=> (~unavailable /\ lt.raised # "none")
            /\ r.status = "ok" <=> (~unavailable /\ lt.raised = "none")
            /\ r.status \in {"skipped", "error"} =>
                  /\ r.score = 0
                  /\ \A i \in 1..Len(r.issues) :
                        /\ r.issues[i].start = -1
                        /\ r.issues[i].message \in
                              {"not installed or disabled", "LanguageTool error",
                               "Suggested fix"}

\* A tool.check call raised on a chunk after an earlier chunk had matches.
C10_Witness ==
    /\ lt.pc = "returned"
    /\ lt.raised = "check"
    /\ lt.total_matches > 0
    /\ lt.result.status = "error"

(***************************************************************************)
(* C16. Page resolution: the page resolved for an offset is the number of  *)
(* page breaks strictly before the offset, plus 1; the offset of a page    *)
(* break itself resolves to the page that the break ends.                  *)
(***************************************************************************)
BreaksBefore(o) == {i \in 1..Len(page_breaks) : page_breaks[i] < o}

C16_PageStrictlyBefore ==
    page # -1 => page = Cardinality(BreaksBefore(offset)) + 1

(***************************************************************************)
(* C17. Without page breaks every offset resolves to page 1, and the       *)
(* (page, line, col) resolution gives the line and the column of the plain *)
(* (line, col) resolution.                                                 *)
(***************************************************************************)
C17_NoPageBreaks ==
    line_starts # <<>> /\ page_breaks = <<>> =>
        /\ page # -1 => page = 1
        /\ ploc # <<>> /\ loc # <<>> => ploc[2] = loc[1] /\ ploc[3] = loc[2]

\* An offset on a later line of a text without page breaks, resolved all
\* three ways.
C17_Witness ==
    /\ line_starts # <<>> /\ page_breaks = <<>>
    /\ page = 1
    /\ loc # <<>> /\ loc[1] > 1
    /\ ploc # <<>> /\ ploc[2] > 1

(***************************************************************************)
(* C18. The binary search of offset_to_line_col returns line = i + 1 and   *)
(* col = o - lineStarts[i] + 1 for the index i of the greatest line start  *)
(* <= o; an offset beyond the text resolves to the last line.              *)
(***************************************************************************)
C18_GreatestLineStart ==
    loc # <<>> =>
        LET below == {i \in 1..Len(line_starts) : line_starts[i] <= offset}
        IN  /\ loc[1] \in below
            /\ \A i \in below : i <= loc[1]
            /\ loc[2] = offset - line_starts[loc[1]] + 1
            /\ offset > Len(txt) => loc[1] = Len(line_starts)

\* An offset beyond the end of a text of several lines has been resolved.
C18_Witness ==
    /\ loc # <<>>
    /\ offset > Len(txt)
    /\ Len(line_starts) > 2
    /\ loc[1] = Len(line_starts)

(***************************************************************************)
(* C19. Chunk boundaries: in a text longer than the chunk size, a window   *)
(* that is not the last ends at the last space or newline before the hard  *)
(* cutoff (start + chunk size) when that position lies beyond half the     *)
(* window, and at the hard cutoff otherwise; the next window starts at the *)
(* previous end minus the overlap.                                         *)
(***************************************************************************)
\* The 0-based positions of the spaces and newlines in [start, end).
Breaks(start, end) == {p \in start..(end - 1) : txt[p + 1] \in {"SP", "LF"}}

LastOf(ps) == CHOOSE p \in ps : \A q \in ps : q <= p

C19_WindowEndsAtLastBreak ==
    LET max_chars == options.lt_chunk_size
        w == gen.windows
    IN  max_chars > 0 /\ Len(txt) > max_chars =>
            \A j \in 1..Len(w) :
                LET start  == w[j][1]
                    cutoff == start + max_chars
                    breaks == Breaks(start, cutoff)
                IN  /\ cutoff < Len(txt) =>
                          w[j][2] = IF breaks # {}
                                       /\ LastOf(breaks) > start + max_chars \div 2
                                    THEN LastOf(breaks)
                                    ELSE cutoff
                    /\ j > 1 => start = w[j - 1][2] - options.lt_overlap

(***************************************************************************)
(* C20. Match deduplication: the match count of an ok grammar result is    *)
(* the number of distinct keys (ruleId, chunk base offset + offset in the  *)
(* chunk, match length) among the matches the collaborator returned over   *)
(* all chunks, and no key yields more than one issue.                      *)
(***************************************************************************)
C20_DistinctKeys ==
    lt.pc = "returned" /\ lt.result.status = "ok" =>
        LET issues == lt.result.issues
        IN  /\ lt.result.metrics.matches = Cardinality(lt.returned)
            /\ Len(issues) <= Cardinality(lt.returned)
            /\ \A i, j \in 1..Len(issues) :
                  i # j => <<issues[i].message, issues[i].start>>
                              # <<issues[j].message, issues[j].start>>

\* Two overlapping chunks each returned one match, at the same place of the
\* text, and it was counted once.
C20_Witness ==
    /\ lt.pc = "returned" /\ lt.result.status = "ok"
    /\ lt.prev.outcome = "returned" /\ lt.last.outcome = "returned"
    /\ lt.prev.repeated = 0 /\ lt.last.repeated = 1
    /\ lt.last.start < lt.prev.end
    /\ lt.last.start > lt.prev.start
    /\ Cardinality(lt.returned) = 1
    /\ lt.result.metrics.matches = 1
    /\ Len(lt.result.issues) = 1

(***************************************************************************)
(* C11. A failed grammar-service call is reported, not retried: once a     *)
(* tool.check call has raised, the grammar check has returned with status  *)
(* error and no further call is made, on that chunk or a later one; the    *)
(* failure does not leave aggregate_report, and the report holds a result  *)
(* for every enabled check, in registration order.                         *)
(***************************************************************************)
C11_FailedCallReported ==
    /\ [](lt.last.outcome = "raised" =>
            /\ lt.pc = "returned" /\ lt.raised = "check"
            /\ lt.result.status = "error"
            /\ agg.raised # 1
            /\ AggDone =>
                  /\ Len(agg.report.check_results) = Len(agg.enabled)
                  /\ \A i \in 1..Len(agg.enabled) :
                        agg.report.check_results[i].check_id
                            = CHECKS[agg.enabled[i]].check_id
                  /\ agg.report.check_results[1].status = "error")
    /\ [][lt.last.outcome = "raised" => lt' = lt]_vars

\* The call for the second chunk raised, and the check enabled after the
\* grammar check ran and is in the report.
C11_Witness ==
    /\ AggDone
    /\ lt.prev.outcome = "returned" /\ lt.prev.end <= lt.last.start
    /\ lt.last.outcome = "raised"
    /\ Len(agg.report.check_results) = 2
    /\ agg.report.check_results[1].status = "error"
    /\ agg.report.check_results[2].status = "ok"

(***************************************************************************)
(* C12. Every call to the collaborator is bounded by a timeout: when the   *)
(* collaborator does not answer a tool.check call, the grammar check       *)
(* eventually returns, with status error.                                  *)
(***************************************************************************)
C12_CallBounded ==
    (lt.pc = "waiting") ~> (lt.pc = "returned" /\ lt.result.status = "error")

(***************************************************************************)
(* C15. Issue-budget accounting: when the report is built with             *)
(* max_issues > 0, for every check the issues it keeps plus its            *)
(* metrics.issues_truncated (0 when absent) are the issues it produced; a  *)
(* check that produced issues and is reached with no budget left keeps     *)
(* none and records them all; issues_truncated is recorded only for a      *)
(* check that lost an issue.                                               *)
(***************************************************************************)
\* issues_truncated of a result, 0 when absent.
Dropped(result) ==
    IF "issues_truncated" \in DOMAIN result.metrics
    THEN result.metrics.issues_truncated
    ELSE 0

C15_BudgetAccounting ==
    [][ sys = "agg" /\ agg.pc = "run" /\ agg'.pc = "done" /\ options.max_issues > 0 =>
          /\ Len(agg'.report.check_results) = Len(agg.results)
          /\ \A i \in 1..Len(agg.results) :
                LET produced  == Len(agg.results[i].issues)
                    after     == agg'.report.check_results[i]
                    remaining == Max(0, options.max_issues
                                          - SumIssues(SubSeq(agg.results, 1, i - 1)))
                IN  /\ Len(after.issues) + Dropped(after) = produced
                    /\ remaining = 0 /\ produced > 0 =>
                          after.issues = <<>> /\ Dropped(after) = produced
                    /\ "issues_truncated" \in DOMAIN after.metrics =>
                          Dropped(after) > 0 ]_vars

\* The first check used up the budget exactly and kept all its issues; the
\* second lost all of its own.
C15_Witness ==
    /\ AggDone
    /\ options.max_issues > 0
    /\ Len(agg.report.check_results) = 2
    /\ Len(agg.report.check_results[1].issues) = options.max_issues
    /\ "issues_truncated" \notin DOMAIN agg.report.check_results[1].metrics
    /\ agg.report.check_results[2].issues = <<>>
    /\ Dropped(agg.report.check_results[2]) > 0

(***************************************************************************)
(* C13. The exit code of a batch run is the maximum over the input         *)
(* documents of the document's code: 2 for a missing or unreadable file,   *)
(* 3 for a total score below --fail-under, 4 for a coverage below          *)
(* --min-coverage (4 when both), 0 otherwise; the exit code never          *)
(* decreases from one document to the next.                                *)
(***************************************************************************)
DocCode(doc, fail_under, min_coverage) ==
    IF doc.kind \in {"missing", "unreadable"} THEN 2
    ELSE IF min_coverage.given /\ doc.coverage < min_coverage.value THEN 4
    ELSE IF fail_under.given /\ doc.total_score < fail_under.value THEN 3
    ELSE 0

\* The greatest code among the first n documents, 0 for none.
RECURSIVE MaxDocCode(_, _, _, _)
MaxDocCode(docs, n, fail_under, min_coverage) ==
    IF n = 0 THEN 0
    ELSE Max(DocCode(docs[n], fail_under, min_coverage),
             MaxDocCode(docs, n - 1, fail_under, min_coverage))

C13_ExitCode ==
    /\ [](sys = "main" /\ run.pc = "returned" =>
            run.exit_code = MaxDocCode(run.docs, Len(run.docs), run.fail_under,
                                       run.min_coverage))
    /\ [][sys = "main" => run'.exit_code >= run.exit_code]_vars

\* A run over three documents: one failed both thresholds, a later one was
\* missing, the last passed; main returned 4.
C13_Witness ==
    /\ sys = "main" /\ run.pc = "returned"
    /\ Len(run.docs) = 3
    /\ run.docs[1].kind = "audited"
    /\ DocCode(run.docs[1], run.fail_under, run.min_coverage) = 4
    /\ run.fail_under.given /\ run.docs[1].total_score < run.fail_under.value
    /\ run.docs[2].kind = "missing"
    /\ run.docs[3].kind = "audited"
    /\ DocCode(run.docs[3], run.fail_under, run.min_coverage) = 0
    /\ run.exit_code = 4

(***************************************************************************)
(* C14. In a batch run a missing file or a read error on one path is       *)
(* reported and that document is skipped: no report is written for it, and *)
(* the run goes on to the next path; when main returns every path has been *)
(* processed and every document that was read has its reports.             *)
(***************************************************************************)
C14_SiblingsUnaffected ==
    /\ [](sys = "main" =>
            /\ \A i \in 1..Len(run.docs) :
                  /\ run.docs[i].kind \in {"missing", "unreadable"} =>
                        i \in run.logged /\ i \notin run.written
                  /\ run.docs[i].kind = "audited" => i \in run.written
            /\ run.pc = "returned" => Len(run.docs) = run.files)
    /\ [][sys = "main" /\ Len(run'.docs) > Len(run.docs)
             /\ run'.docs[Len(run'.docs)].kind \in {"missing", "unreadable"} =>
                /\ run'.pc = "loop"
                /\ run'.idx = run.idx + 1
                /\ run'.written = run.written]_vars

\* The first path was missing, the second unreadable, and the third was
\* audited and has its reports.
C14_Witness ==
    /\ sys = "main" /\ run.pc = "returned"
    /\ Len(run.docs) = 3
    /\ run.docs[1].kind = "missing"
    /\ run.docs[2].kind = "unreadable"
    /\ run.docs[3].kind = "audited"
    /\ run.written = {3}
    /\ run.exit_code = 2

(***************************************************************************)
(* C21. The scenario of the command line with the punctuation and          *)
(* whitespace checks enabled: for a raw input that holds one "!!", a run   *)
(* of several spaces inside a line and a tab immediately before its final  *)
(* newline, the punctuation check flags one repeated-punctuation match and *)
(* the whitespace check flags the double-space run and the tab character   *)
(* (tab_characters >= 1, with a tab issue).                                *)
(***************************************************************************)
HasIssue(result, message) ==
    \E i \in 1..Len(result.issues) : result.issues[i].message = message

\* The raw input of the scenario.
ScenarioInput(t) ==
    /\ Cardinality(RunStarts(t, "BANG")) = 1
    /\ \E i \in RunStarts(t, "SP") : ~BeforeLF(t, i + 1)
    /\ Len(t) >= 2 /\ t[Len(t)] = "LF" /\ t[Len(t) - 1] = "TAB"

C21_ScenarioFlags ==
    /\ {"punctuation", "whitespace"} \subseteq DOMAIN checked
    /\ options.max_issues_per_check = DefaultOptions.max_issues_per_check
    /\ ScenarioInput(txt)
    => /\ checked["punctuation"].metrics.double_punctuations = 1
       /\ HasIssue(checked["punctuation"], "Repeated punctuation")
       /\ checked["whitespace"].metrics.double_spaces >= 1
       /\ HasIssue(checked["whitespace"], "double-space occurrence(s)")
       /\ checked["whitespace"].metrics.tab_characters >= 1
       /\ HasIssue(checked["whitespace"], "tab character(s) found")

(***************************************************************************)
(* C22. Parallel lists: the maximal runs of consecutive bullet lines are   *)
(* the blocks, a line without a bullet (a blank line too) ends a block,    *)
(* only blocks of at least 3 items are examined, and each examined block   *)
(* whose items fall into more than one category yields exactly one         *)
(* parallel_lists issue; inconsistent_blocks counts those blocks and       *)
(* penalty_points = min(weight, 2.0 x inconsistent_blocks). A list of      *)
(* three items with a gerund, another and a noun-phrase start gives one    *)
(* issue, inconsistent_blocks = 1 and penalty_points = 2.0.                *)
(***************************************************************************)
\* The maximal runs of bullet lines in ctx.lines, as (first, last).
BulletRuns ==
    {r \in (1..Len(ctx.lines)) \X (1..Len(ctx.lines)) :
        /\ r[1] <= r[2]
        /\ \A n \in r[1]..r[2] : IsBullet(ctx.lines[n])
        /\ r[1] = 1 \/ ~IsBullet(ctx.lines[r[1] - 1])
        /\ r[2] = Len(ctx.lines) \/ ~IsBullet(ctx.lines[r[2] + 1])}

\* The examined runs whose items fall into more than one category.
MixedRuns ==
    {r \in BulletRuns :
        /\ r[2] - r[1] + 1 >= 3
        /\ \E m, n \in r[1]..r[2] : ctx.lines[m][1] # ctx.lines[n][1]}

C22_ParallelLists ==
    "parallel_lists" \in DOMAIN checked =>
        LET result == checked["parallel_lists"]
            mixed  == Cardinality(MixedRuns)
        IN  /\ Len(result.issues) = mixed
            /\ \A i \in 1..Len(result.issues) :
                  result.issues[i].check_id = "parallel_lists"
            /\ result.metrics.inconsistent_blocks = mixed
            /\ result.metrics.penalty_points = Min(CHECKS[8].weight, 200 * mixed)
            /\ result.score = CHECKS[8].weight - result.metrics.penalty_points
            /\ ctx.lines \in {<<<<"GERUND">>, <<"OTHER">>, <<"NOUNPHRASE">>>>,
                              <<<<"GERUND">>, <<"OTHER">>, <<"NOUNPHRASE">>, <<>>>>}
                 => /\ Len(result.issues) = 1
                    /\ result.metrics.inconsistent_blocks = 1
                    /\ result.metrics.penalty_points = 200

\* The three-item list of the scenario, ended by a newline, has been checked.
C22_Witness ==
    /\ "parallel_lists" \in DOMAIN checked
    /\ ctx.lines = <<<<"GERUND">>, <<"OTHER">>, <<"NOUNPHRASE">>, <<>>>>
    /\ Len(checked["parallel_lists"].issues) = 1
    /\ checked["parallel_lists"].metrics.penalty_points = 200

(***************************************************************************)
(* C23. Per-check issue cap: the CheckResult a check returns, before the   *)
(* global truncation, holds at most options.max_issues_per_check issues,   *)
(* for any max_issues_per_check >= 0.                                      *)
(***************************************************************************)
C23_PerCheckCap ==
    agg.pc = "run" =>
        \A k \in 1..Len(agg.results) :
            Len(agg.results[k].issues) <= options.max_issues_per_check

(***************************************************************************)
(* C24. Check independence: no check changes the shared CheckContext and   *)
(* none reads another check's result, so in whatever order the enabled     *)
(* checks run, each returns the CheckResult it returns on the freshly      *)
(* built context, which is what sequential execution in registration order *)
(* gives it; the results joined in registration order, and the report made *)
(* of them, are therefore the same.                                        *)
(***************************************************************************)
\* The result of the check id on a context that no check has run on.
AloneOn(id, c) ==
    CASE id = "punctuation" ->
           RunPunctuation(c, options.max_issues_per_check, CHECKS[3].weight)
      [] id = "whitespace" ->
           RunWhitespace(c, options.max_issues_per_check, CHECKS[4].weight)
      [] id = "parallel_lists" ->
           RunParallelBullets(c, CHECKS[8].weight)

Chunked ==
    /\ options.lt_chunk_size > 0
    /\ Len(txt) > options.lt_chunk_size
    /\ 0 <= options.lt_overlap /\ options.lt_overlap < options.lt_chunk_size

C25_ChunkingTerminates ==
    /\ [](Chunked => \A j \in 2..Len(gen.windows) :
                        gen.windows[j][1] > gen.windows[j - 1][1])
    /\ <>(Chunked => /\ gen.pc = "exhausted"
                     /\ gen.windows[Len(gen.windows)][2] = Len(txt))

(***************************************************************************)
(* C26. Chunk coverage: for every text, chunk size and overlap >= 0, each  *)
(* yielded pair (chunk, start) has chunk = text[start : start +            *)
(* len(chunk)], a chunk is no longer than the chunk size when the text is  *)
(* longer than the chunk size, each next window starts no later than the   *)
(* previous window's end, and the yielded windows together cover every     *)
(* character position of the text: the first starts at 0 and the last ends *)
(* at len(text). A text no longer than the chunk size, or a chunk size     *)
(* <= 0, yields exactly one chunk (text, 0).                               *)
(***************************************************************************)
\* The positions of the text that the windows yielded so far hold.
Covered == {p \in 0..(Len(txt) - 1) :
              \E j \in 1..Len(gen.windows) :
                 gen.windows[j][1] <= p /\ p < gen.windows[j][2]}

C26_ChunkCoverage ==
    /\ [](LET w == gen.windows
              max_chars == options.lt_chunk_size
          IN  /\ \A j \in 1..Len(w) :
                    /\ w[j][3] = SubSeq(txt, w[j][1] + 1, w[j][1] + Len(w[j][3]))
                    /\ w[j][2] = w[j][1] + Len(w[j][3])
                    /\ max_chars > 0 /\ Len(txt) > max_chars => Len(w[j][3]) <= max_chars
                    /\ j > 1 => w[j][1] <= w[j - 1][2]
              /\ Len(w) > 0 => w[1][1] = 0
              /\ (max_chars <= 0 \/ Len(txt) <= max_chars) /\ Len(w) > 0
                    => w = <<<<0, Len(txt), txt>>>>)
    /\ <>(/\ gen.pc = "exhausted"
          /\ gen.windows[Len(gen.windows)][2] = Len(txt)
          /\ Covered = 0..(Len(txt) - 1))

(***************************************************************************)
(* C27. Context alignment: build_context produces lines and line_starts of *)
(* equal length; line_starts begins with 0 and is strictly ascending; line *)
(* i occupies exactly text[line_starts[i] : line_starts[i] + len(line i)], *)
(* up to its terminator or the end of the text; and every page-break       *)
(* offset p holds a terminator, with p + 1 in line_starts.                 *)
(***************************************************************************)
C27_ContextAligned ==
    ctx # NoContext =>
        LET ls == ctx.line_starts
            t  == ctx.text
        IN  /\ Len(ctx.lines) = Len(ls)
            /\ ls[1] = 0
            /\ \A i, j \in 1..Len(ls) : i < j => ls[i] < ls[j]
            /\ \A i \in 1..Len(ctx.lines) :
                  LET end == ls[i] + Len(ctx.lines[i])
                  IN  /\ end <= Len(t)
                      /\ ctx.lines[i] = SubSeq(t, ls[i] + 1, end)
                      /\ \A p \in (ls[i] + 1)..end : t[p] \notin {"LF", "FF"}
                      /\ end = Len(t) \/ t[end + 1] \in {"LF", "FF"}
            /\ \A k \in 1..Len(ctx.page_breaks) :
                  /\ t[ctx.page_breaks[k] + 1] = "FF"
                  /\ \E i \in 1..Len(ls) : ls[i] = ctx.page_breaks[k] + 1

\* The context of a text of three lines on two pages, the last line not
\* empty.
C27_Witness ==
    /\ ctx # NoContext
    /\ Len(ctx.lines) = 3 /\ Len(ctx.line_starts) = 3
    /\ Len(ctx.page_breaks) = 1
    /\ ctx.page_breaks[1] > 0
    /\ Len(ctx.lines[3]) > 0

(***************************************************************************)
(* C28. Line-coordinate consistency: in a document with at least one page  *)
(* break, every issue that carries a page number carries the page-local    *)
(* line number of the character it points at (lines counted from the first *)
(* line of that page), whichever check produced it; two issues of          *)
(* different checks that point at the same character carry the same        *)
(* (page, line, col).                                                      *)
(***************************************************************************)
\* The line of offset o counted from the first line of its page: the line
\* starts after the last page break before o, up to o.
PageLocalLine(c, o) ==
    LET before == {c.page_breaks[k] : k \in 1..Len(c.page_breaks)} \cap 0..(o - 1)
        top    == IF before = {} THEN 0
                  ELSE (CHOOSE b \in before : \A d \in before : d <= b) + 1
    IN  1 + Cardinality({i \in 1..Len(c.line_starts) :
                            c.line_starts[i] > top /\ c.line_starts[i] <= o})

\* The issues of the checks that have run, as (check, issue).
AllIssues ==
    UNION {{<<id, checked[id].issues[k]>> : k \in 1..Len(checked[id].issues)} :
              id \in DOMAIN checked}

C28_PageLocalLines ==
    ctx.page_breaks # <<>> =>
        /\ \A x \in AllIssues :
              x[2].page # NoPage => x[2].line = PageLocalLine(ctx, x[2].at)
        /\ \A x, y \in AllIssues :
              x[1] # y[1] /\ x[2].at # -1 /\ x[2].at = y[2].at =>
                  <<x[2].page, x[2].line, x[2].col>> = <<y[2].page, y[2].line, y[2].col>>

(***************************************************************************)
(* C29. Location injectivity: in a text with page breaks,                  *)
(* offset_to_page_line_col maps distinct valid offsets to distinct (page,  *)
(* page-local line, col) triples, the first line of every page has         *)
(* page-local line 1, and the page it returns is the page of               *)
(* offset_to_page; in particular the offset of a page break does not       *)
(* resolve to the triple of an offset on the first line of the next page.  *)
(***************************************************************************)
C29_LocationInjective ==
    ploc # <<>> /\ page_breaks # <<>> /\ offset < Len(txt) =>
        /\ \A o \in 0..(Len(txt) - 1) :
              o # offset => offset_to_page_line_col(o, line_starts, page_breaks) # ploc
        /\ (\E k \in 1..Len(page_breaks) :
               /\ page_breaks[k] < offset
               /\ \A p \in (page_breaks[k] + 1)..offset : txt[p + 1] \notin {"LF", "FF"})
              => ploc[2] = 1
        /\ page # -1 => ploc[1] = page

(***************************************************************************)
(* C30. Truncation frame: the global issue budget changes nothing but each *)
(* check's issues list and its issues_truncated metric. Every check's id,  *)
(* score, max_score and status, the order and number of the check results, *)
(* and the report's total_score and coverage are those of the audit        *)
(* without a budget (they are computed from what the checks returned);     *)
(* the issues a check keeps are an unmodified prefix of the issues it      *)
(* produced; with max_issues <= 0 nothing is truncated or annotated.       *)
(***************************************************************************)
C30_TruncationFrame ==
    [][ sys = "agg" /\ agg.pc = "run" /\ agg'.pc = "done" =>
          LET before == agg.results
              after  == agg'.report.check_results
              n == Len(before)
              w == ContributingWeight(before, agg.enabled, options.strict, n)
              s == ContributingScore(before, options.strict, n)
          IN  /\ Len(after) = n
              /\ agg'.results = after
              /\ \A i \in 1..n :
                    /\ after[i].check_id = before[i].check_id
                    /\ after[i].score = before[i].score
                    /\ after[i].max_score = before[i].max_score
                    /\ after[i].status = before[i].status
                    /\ Len(after[i].issues) <= Len(before[i].issues)
                    /\ after[i].issues = SubSeq(before[i].issues, 1, Len(after[i].issues))
                    /\ DOMAIN after[i].metrics \ {"issues_truncated"} = DOMAIN before[i].metrics
                    /\ \A key \in DOMAIN before[i].metrics :
                          after[i].metrics[key] = before[i].metrics[key]
              /\ agg'.report.total_score = IF w > 0 THEN RoundDiv(10000 * s, w) ELSE 0
              /\ agg'.report.coverage =
                    IF agg.enabled # <<>> THEN RoundDiv(10000 * w, SumWeights(agg.enabled))
                    ELSE 0
              /\ options.max_issues <= 0 => after = before ]_vars

\* A report cut by the budget: a check that lost points keeps a proper
\* prefix of its issues, and its score is not the full weight.
C30_Witness ==
    /\ AggDone
    /\ options.max_issues > 0
    /\ \E i \in 1..Len(agg.report.check_results) :
          LET r == agg.report.check_results[i]
          IN  /\ Dropped(r) > 0
              /\ Len(r.issues) > 0
              /\ r.status = "ok"
              /\ r.score < r.max_score
    /\ agg.report.total_score < 10000

=============================================================================
